------------------------------ MODULE Spec2Model ------------------------------
(***************************************************************************)
(* Model of the import-maintenance scripts of the repository:              *)
(*   src/refactor_imports.py  rewrite pass (main / process_file)           *)
(*   src/analyze_report.py    classification of lint violations            *)
(*   src/audit_script.py      audit pass (audit_codebase)                  *)
(*                                                                         *)
(* Strings are sequences of tokens.  A token is "/", ".", "'", "@" or an   *)
(* atom (a run of characters holding none of these), so that every string  *)
(* operation of the code (startswith, in, split, replace) is computed on   *)
(* the text and not on path segments: "dbx" is the two atoms "db","x" and   *)
(* shares its leading characters with "db".                                *)
(***************************************************************************)
EXTENDS Integers, Sequences, FiniteSets, TLC

--------------------------------------------------------------------------------
(* Python str primitives *)

StartsWith(s, p) ==
    Len(p) <= Len(s) /\ SubSeq(s, 1, Len(p)) = p

EndsWith(s, p) ==
    Len(p) <= Len(s) /\ SubSeq(s, Len(s) - Len(p) + 1, Len(s)) = p


\* p in s
Contains(s, p) ==
    \E i \in 0..(Len(s) - Len(p)) : SubSeq(s, i + 1, i + Len(p)) = p

\* the first place at or after i where p occurs in s, 0 when there is none
RECURSIVE FindFrom(_, _, _)
FindFrom(s, p, i) ==
    IF i + Len(p) - 1 > Len(s) THEN 0
    ELSE IF SubSeq(s, i, i + Len(p) - 1) = p THEN i
    ELSE FindFrom(s, p, i + 1)

\* s.find(p) + 1 (0 when p does not occur in s)
Find(s, p) == FindFrom(s, p, 1)

\* the last place at or before i where p occurs in s, 0 when there is none
RECURSIVE RFindFrom(_, _, _)
RFindFrom(s, p, i) ==
    IF i < 1 THEN 0
    ELSE IF SubSeq(s, i, i + Len(p) - 1) = p THEN i
    ELSE RFindFrom(s, p, i - 1)

\* s.rfind(p) + 1 (0 when p does not occur in s)
RFind(s, p) == RFindFrom(s, p, Len(s) - Len(p) + 1)

\* s.split(p): the pieces of s between the occurrences of p (i is the place of
\* the first occurrence)
RECURSIVE Split(_, _)
RECURSIVE SplitAt(_, _, _)
SplitAt(s, p, i) ==
    IF i = 0 THEN << s >>
    ELSE << SubSeq(s, 1, i - 1) >> \o Split(SubSeq(s, i + Len(p), Len(s)), p)

Split(s, p) == SplitAt(s, p, Find(s, p))

ReplaceAt(s, old, new, i) ==
    IF i = 0 THEN s
    ELSE SubSeq(s, 1, i - 1) \o new \o SubSeq(s, i + Len(old), Len(s))

\* s.replace(old, new, 1)
ReplaceFirst(s, old, new) == ReplaceAt(s, old, new, Find(s, old))

\* s.replace(old, new)
RECURSIVE ReplaceAll(_, _, _)
RECURSIVE ReplaceAllAt(_, _, _, _)
ReplaceAllAt(s, old, new, i) ==
    IF i = 0 THEN s
    ELSE SubSeq(s, 1, i - 1) \o new
            \o ReplaceAll(SubSeq(s, i + Len(old), Len(s)), old, new)

ReplaceAll(s, old, new) == ReplaceAllAt(s, old, new, Find(s, old))

\* p.join(parts)
RECURSIVE JoinWith(_, _)
JoinWith(parts, p) ==
    IF Len(parts) = 0 THEN << >>
    ELSE IF Len(parts) = 1 THEN parts[1]
    ELSE parts[1] \o p \o JoinWith(Tail(parts), p)

\* s.rstrip('/')
RECURSIVE RStripSlash(_)
RStripSlash(s) ==
    IF Len(s) > 0 /\ s[Len(s)] = "/" THEN RStripSlash(SubSeq(s, 1, Len(s) - 1)) ELSE s

\* Python's None, kept apart from every string of the model
None == << "None" >>

SLASH == << "/" >>
DOT == << "." >>
DOTDOT == << ".", "." >>

--------------------------------------------------------------------------------
(* posixpath *)

\* os.getcwd() of the run, which is also ROOT_DIR
ROOT_DIR == << "/", "home", "/", "repo" >>

isabs(p) == StartsWith(p, SLASH)

\* head = p[:i] of dirname, stripped of its trailing slashes unless it is all slashes
DirHead(head) ==
    IF Len(head) > 0 /\ \E k \in 1..Len(head) : head[k] # "/"
    THEN RStripSlash(head)
    ELSE head

dirname(p) == DirHead(SubSeq(p, 1, RFind(p, SLASH)))

path_join(a, b) ==
    IF isabs(b) THEN b
    ELSE IF Len(a) = 0 \/ EndsWith(a, SLASH) THEN a \o b
    ELSE a \o SLASH \o b

\* the loop of normpath over the components, new_comps being built
RECURSIVE NormComps(_, _, _)
NormComps(comps, new_comps, initial_slashes) ==
    IF Len(comps) = 0 THEN new_comps
    ELSE LET comp == Head(comps)
             n == Len(new_comps)
         IN  IF comp = << >> \/ comp = DOT
             THEN NormComps(Tail(comps), new_comps, initial_slashes)
             ELSE IF \/ comp # DOTDOT
                     \/ (initial_slashes = 0 /\ n = 0)
                     \/ (n > 0 /\ new_comps[n] = DOTDOT)
             THEN NormComps(Tail(comps), Append(new_comps, comp), initial_slashes)
             ELSE IF n > 0
             THEN NormComps(Tail(comps), SubSeq(new_comps, 1, n - 1), initial_slashes)
             ELSE NormComps(Tail(comps), new_comps, initial_slashes)

\* initial_slashes of normpath
InitialSlashes(p) ==
    IF ~StartsWith(p, SLASH) THEN 0
    ELSE IF StartsWith(p, << "/", "/" >>) /\ ~StartsWith(p, << "/", "/", "/" >>)
    THEN 2 ELSE 1

\* path or '.'
OrDot(p) == IF Len(p) = 0 THEN DOT ELSE p

normpath(p) ==
    IF Len(p) = 0 THEN DOT
    ELSE OrDot([i \in 1..InitialSlashes(p) |-> "/"]
                 \o JoinWith(NormComps(Split(p, SLASH), << >>, InitialSlashes(p)), SLASH))

abspath(p) ==
    IF isabs(p) THEN normpath(p) ELSE normpath(path_join(ROOT_DIR, p))

\* [x for x in p.split('/') if x]
NonEmptyComps(p) == SelectSeq(Split(p, SLASH), LAMBDA c : c # << >>)

\* len(commonprefix([a, b])) for two component lists
RECURSIVE CommonLen(_, _)
CommonLen(a, b) ==
    IF Len(a) = 0 \/ Len(b) = 0 \/ Head(a) # Head(b) THEN 0
    ELSE 1 + CommonLen(Tail(a), Tail(b))

\* rel_list of relpath, i being the length of the common prefix
RelList(start_list, path_list, i) ==
    [k \in 1..(Len(start_list) - i) |-> DOTDOT] \o SubSeq(path_list, i + 1, Len(path_list))

RelFrom(start_list, path_list) ==
    OrDot(JoinWith(RelList(start_list, path_list, CommonLen(start_list, path_list)), SLASH))

relpath(p, start) == RelFrom(NonEmptyComps(abspath(start)), NonEmptyComps(abspath(p)))

--------------------------------------------------------------------------------
(* refactor_imports.py *)

ALIASES == <<
    << << "src", "/", "modules" >>,    << "@", "/", "modules" >> >>,
    << << "src", "/", "shared" >>,     << "@", "/", "shared" >> >>,
    << << "src", "/", "db" >>,         << "@", "/", "db" >> >>,
    << << "app" >>,                    << "@", "/", "app" >> >>,
    << << "src", "/", "components" >>, << "@", "/", "components" >> >>,
    << << "src", "/", "types" >>,      << "@", "/", "types" >> >>,
    << << "src", "/", "lib" >>,        << "@", "/", "lib" >> >>,
    << << "src", "/", "hooks" >>,      << "@", "/", "hooks" >> >>,
    << << "src", "/", "stores" >>,     << "@", "/", "stores" >> >>,
    << << "src", "/", "context" >>,    << "@", "/", "context" >> >>,
    << << "src", "/", "guidelines" >>, << "@", "/", "guidelines" >> >>,
    << << "assets" >>,                 << "@", "/", "assets" >> >> >>

\* faulty variant: the specifier is joined to the file's path, not to its directory
resolve_path_no_dirname(current_file_path, import_path) ==
    IF StartsWith(import_path, DOT)
    THEN relpath(abspath(path_join(current_file_path, import_path)), ROOT_DIR)
    ELSE import_path

resolve_path(current_file_path, import_path) ==
    IF StartsWith(import_path, DOT)
    THEN LET current_dir == dirname(current_file_path)
             abs_path == abspath(path_join(current_dir, import_path))
         IN  relpath(abs_path, ROOT_DIR)
    ELSE import_path

\* the for loop of get_alias_for_path over the rules of table, in order
RECURSIVE AliasLoop(_, _)
AliasLoop(table, path) ==
    IF Len(table) = 0 THEN None
    ELSE LET source == Head(table)[1]
             alias == Head(table)[2]
         IN  IF path = source \/ StartsWith(path, source \o SLASH)
             THEN ReplaceFirst(path, source, alias)
             ELSE AliasLoop(Tail(table), path)

\* faulty variant: the matched path is written back root-relative ("./src/db/x"), not aliased
get_alias_kept_relative(path) ==
    IF AliasLoop(ALIASES, path) = None THEN None ELSE << ".", "/" >> \o path

\* faulty variant: a rule matches any path that starts with its prefix, boundary or not
RECURSIVE AliasLoopNoBoundary(_, _)
AliasLoopNoBoundary(table, path) ==
    IF Len(table) = 0 THEN None
    ELSE IF StartsWith(path, Head(table)[1])
    THEN ReplaceFirst(path, Head(table)[1], Head(table)[2])
    ELSE AliasLoopNoBoundary(Tail(table), path)

get_alias_no_boundary(path) == AliasLoopNoBoundary(ALIASES, path)

get_alias_for_path(path) == AliasLoop(ALIASES, path)


\* os.path.join(root, file) in main: root lies under SRC_DIR or APP_DIR, both
\* absolute below ROOT_DIR; rel is the file's path below ROOT_DIR
filepath_of(rel) == path_join(ROOT_DIR, rel)

\* one call of replacer (the specifier is group 2, 5 or 8 of the match; prefix and
\* suffix are copied as matched).  The record keeps what the call computed:
\* resolved and aliased are None when the call returned before computing them,
\* and mapped says whether get_alias_for_path was called.
\* faulty variant: the "/src/" trigger (Case 2) is missing
Decide_no_src_trigger(path, aliased) ==
    IF aliased # None /\ aliased # << >> /\ path # aliased
    THEN IF Contains(path, << ".", ".", "/", ".", ".", "/" >>) THEN aliased ELSE path
    ELSE path

\* faulty variant: every relative specifier that has an alias is replaced
Decide_aggressive(path, aliased) ==
    IF aliased # None /\ aliased # << >> /\ path # aliased THEN aliased ELSE path

\* lines 91-129: the text replacer returns for the specifier once aliased is known
Decide(path, aliased) ==
    IF aliased # None /\ aliased # << >> /\ path # aliased
    THEN IF Contains(path, << ".", ".", "/", ".", ".", "/" >>)
         THEN aliased
         ELSE IF StartsWith(path, << ".", ".", "/", ".", ".", "/" >>)
         THEN aliased
         ELSE IF Contains(path, << "/", "src", "/" >>)
         THEN aliased
         ELSE path
    ELSE path

\* lines 89-129
Aliasing(path, resolved, aliased) ==
    [path |-> path, resolved |-> resolved, aliased |-> aliased, mapped |-> TRUE,
     out |-> Decide(path, aliased)]

\* faulty variant: the test of resolved.startswith('..') is missing
Resolved_no_guard(path, resolved) ==
    Aliasing(path, resolved, get_alias_for_path(resolved))

\* lines 85-129
Resolved(path, resolved) ==
    IF StartsWith(resolved, DOTDOT)
    THEN [path |-> path, resolved |-> resolved, aliased |-> None, mapped |-> FALSE, out |-> path]
    ELSE Aliasing(path, resolved, get_alias_for_path(resolved))

Replacement(filepath, path) ==
    IF ~StartsWith(path, DOT)
    THEN [path |-> path, resolved |-> None, aliased |-> None, mapped |-> FALSE, out |-> path]
    ELSE Resolved(path, resolve_path(filepath, path))

\* IMPORT_REGEX.sub(replacer, content): content is the sequence of the specifiers
\* of the file's import / export / require occurrences, in text order
SubAll(filepath, content) ==
    [i \in 1..Len(content) |-> Replacement(filepath, content[i])]

\* file.endswith(extensions)
HasSourceExt(rel) ==
    \E e \in { "ts", "tsx", "js", "jsx" } : EndsWith(rel, << ".", e >>)

--------------------------------------------------------------------------------
(* analyze_report.py *)

RULE_ID == "no-restricted-imports"

\* lines 26-30 and 36-40: parts[2] after the startswith test, else None
\* faulty variant: the index is off by one (parts[1])
ThirdPart_off_by_one(parts) == IF Len(parts) > 2 THEN parts[2] ELSE None

ThirdPart(parts) == IF Len(parts) > 2 THEN parts[3] ELSE None

\* faulty variant: the startswith test is missing
ModulePart_no_prefix_test(s, root) == ThirdPart(Split(s, SLASH))

ModulePart(s, root) ==
    IF StartsWith(s, root) THEN ThirdPart(Split(s, SLASH)) ELSE None

\* Python truthiness of a str-or-None
Truthy(x) == x # None /\ x # << >>

\* lines 26-50 for one violation: the bucket the violation is appended to
\* faulty variant: the else branch is taken only when the source module is missing, so a
\* violation with a source module and no target module is appended nowhere
Bucket_no_else(source_module, target_module) ==
    IF Truthy(source_module) /\ Truthy(target_module)
    THEN IF source_module = target_module THEN "same" ELSE "cross"
    ELSE IF ~Truthy(source_module) THEN "other" ELSE "dropped"

\* lines 44-50
Bucket(source_module, target_module) ==
    IF Truthy(source_module) /\ Truthy(target_module)
    THEN IF source_module = target_module THEN "same" ELSE "cross"
    ELSE "other"

Classify(file, import_path) ==
    Bucket(ModulePart(file, << "src", "/", "modules", "/" >>),
           ModulePart(import_path, << "@", "/", "modules", "/" >>))

\* line 34
import_path_of(message) == Split(message, << "'" >>)[2]

\* line 42
info_of(v) == [file |-> v.file, import |-> import_path_of(v.message), line |-> v.line]

\* lines 44-50 for one of the three lists
AppendIf(list, name, v) ==
    IF Classify(v.file, import_path_of(v.message)) = name THEN Append(list, info_of(v)) ELSE list

\* lines 9-16: the violations of the report
RECURSIVE Collect(_, _)
Collect(data, n) ==
    IF n > Len(data) THEN << >>
    ELSE IF data[n].ruleId = RULE_ID
    THEN << [file |-> ReplaceAll(data[n].filePath, ROOT_DIR \o SLASH, << >>),
             line |-> data[n].line,
             message |-> data[n].message] >> \o Collect(data, n + 1)
    ELSE Collect(data, n + 1)

--------------------------------------------------------------------------------
(* audit_script.py *)

\* lines 77-81
SecondPartHead(parts) == IF Len(parts) > 1 THEN Split(parts[2], SLASH)[1] ELSE None

current_module_of(filepath) ==
    IF Contains(filepath, << "src", "/", "modules", "/" >>)
    THEN SecondPartHead(Split(filepath, << "src", "/", "modules", "/" >>))
    ELSE None

\* lines 83-96 for one line holding an import of specifier spec:
\* deep_import_pattern matches from '@/modules/<one or more non-slash>/<rest>'
\* after is what follows '@/modules/', k the place of its first slash
DeepImport(filepath, after, k) ==
    /\ k > 1
    /\ SubSeq(after, 1, k - 1) # current_module_of(filepath)
    /\ Contains(SubSeq(after, k + 1, Len(after)), SLASH)

IsModuleViolation(filepath, spec) ==
    /\ StartsWith(spec, << "@", "/", "modules", "/" >>)
    /\ DeepImport(filepath, SubSeq(spec, 5, Len(spec)), Find(SubSeq(spec, 5, Len(spec)), SLASH))

\* lines 69-96 over the lines of one file: the module_violations it adds
AuditFile(filepath, content) ==
    SelectSeq([i \in 1..Len(content) |-> [file |-> filepath, line |-> i, spec |-> content[i]]],
              LAMBDA r : IsModuleViolation(filepath, r.spec))

\* line 45
IsPrunedDir(subdir) ==
    Contains(subdir, << "node_modules" >>) \/ Contains(subdir, << ".", "git" >>)


--------------------------------------------------------------------------------
(* Bounds and inputs *)

\* most "../" segments at the head of a generated specifier
MaxUp == 4
\* most import occurrences in a file whose specifiers are enumerated freely
MaxImports == 1
\* most files in a walked tree of several files
MaxFiles == 2
\* most invocations of main on the same tree
MaxRuns == 2
\* most messages in the lint report
MaxMsgs == 2

Up(n) == [i \in 1..(3 * n) |-> IF i % 3 = 0 THEN "/" ELSE "."]

RelHeads == { << ".", "/" >> } \cup { Up(n) : n \in 1..MaxUp }

Tails == {
    << "sibling" >>,
    << "src", "/", "db", "/", "models", "/", "Friend" >>,
    << "db", "/", "models", "/", "Friend" >>,
    << "db" >>,
    << "db", "x", "/", "y" >>,
    << "d", "/", "e" >>,
    << "repo", "/", "src", "/", "db", "/", "x" >>,
    << "ui", "/", ".", ".", "/", ".", ".", "/", "types" >> }

NonRelSpecs == {
    << "@", "/", "db", "/", "models", "/", "Friend" >>,
    << "@", "/", "modules", "/", "interactions", "/", "services", "/", "foo" >>,
    << "react" >> }

Specs == { h \o t : h \in RelHeads, t \in Tails } \cup NonRelSpecs

F_Invoice == << "src", "/", "modules", "/", "billing", "/", "ui", "/", "Invoice", ".", "tsx" >>
F_A == << "src", "/", "a", ".", "ts" >>
F_C == << "app", "/", "b", "/", "c", ".", "ts" >>
F_Notes == << "src", "/", "notes", ".", "md" >>
F_Dep == << "src", "/", "node_modules", "/", "pkg", "/", "index", ".", "js" >>

SeqsUpTo(S, n) == UNION { [1..k -> S] : k \in 0..n }

\* a tree of one readable source file, its specifiers enumerated
RichTrees ==
    { << [rel |-> f, readable |-> TRUE, content |-> c] >> :
        f \in { F_Invoice, F_A, F_C }, c \in SeqsUpTo(Specs, MaxImports) }

WalkFiles == {
    [rel |-> F_Invoice, readable |-> TRUE,
     content |-> << Up(3) \o << "db", "/", "models", "/", "Friend" >>,
                    << "@", "/", "modules", "/", "interactions", "/", "services", "/", "foo" >> >>],
    [rel |-> F_C, readable |-> TRUE,
     content |-> << Up(3) \o << "d", "/", "e" >>,
                    Up(2) \o << "src", "/", "db", "/", "models", "/", "Friend" >> >>],
    [rel |-> F_A, readable |-> FALSE, content |-> << >>],
    [rel |-> F_Notes, readable |-> TRUE, content |-> << Up(2) \o << "db", "/", "x" >> >>],
    [rel |-> F_Dep, readable |-> TRUE, content |-> << Up(3) \o << "src", "/", "db", "/", "x" >> >>] }

\* trees of several files, in the order os.walk yields them, no path twice
WalkTrees ==
    { t \in SeqsUpTo(WalkFiles, MaxFiles) :
        Len(t) > 0 /\ \A i, j \in 1..Len(t) : i # j => t[i].rel # t[j].rel }

Trees == RichTrees \cup WalkTrees

ReportSpecs == {
    << "@", "/", "modules", "/", "interactions", "/", "services", "/", "foo" >>,
    << "@", "/", "modules" >>,
    << "@", "/", "modules", "/" >>,
    << "react" >>,
    << ".", ".", "/", "interactions", "/", "services", "/", "foo" >>,
    << ".", "/", "sibling" >> }

MsgOf(spec) ==
    << "'" >> \o spec
        \o << "'", " import is restricted from being used by a pattern. ", "@", "/", "modules", "/", "*" >>

\* messages of the restricted rule that quote no specifier
OddMessages == { << "Unexpected restricted import" >>, << "can", "'", "t check import" >> }

ReportFiles == {
    ROOT_DIR \o << "/", "src", "/", "modules", "/", "billing", "/", "Bar", ".", "ts" >>,
    ROOT_DIR \o << "/", "src", "/", "modules", "/", "interactions", "/", "internal", "/", "Bar", ".", "ts" >>,
    ROOT_DIR \o << "/", "app", "/", "index", ".", "ts" >> }

ReportEntries ==
    { [filePath |-> f, ruleId |-> RULE_ID, message |-> MsgOf(s)] : f \in ReportFiles, s \in ReportSpecs }
        \cup { [filePath |-> ROOT_DIR \o << "/", "src", "/", "modules", "/", "billing", "/", "Bar", ".", "ts" >>,
                ruleId |-> RULE_ID, message |-> m] : m \in OddMessages }
        \cup { [filePath |-> ROOT_DIR \o << "/", "app", "/", "index", ".", "ts" >>,
                ruleId |-> "no-unused-vars", message |-> << "'", "x", "'", " is defined but never used" >>] }

\* eslint_report.json flattened to its messages, each with its file's path; the
\* line of a message is its position in the report
Reports ==
    { [i \in 1..Len(r) |-> [filePath |-> r[i].filePath, ruleId |-> r[i].ruleId,
                             line |-> i, message |-> r[i].message]] :
        r \in SeqsUpTo(ReportEntries, MaxMsgs) }

--------------------------------------------------------------------------------
(* State *)

VARIABLES
    prog,             \* the script that runs: "refactor", "audit" or "analyze"
    pc,               \* where it is
    tree,             \* the walked files as first found: rel, readable, content
    disk,             \* the files' contents now
    idx,              \* the walk's position in tree
    runs,             \* invocations of the script so far
    updated,          \* positions of the files written by this invocation
    last,             \* position of the file process_file handled last, or 0
    plans,            \* what replacer computed for each occurrence of that file
    findings,         \* audit: findings["architecture"]["module_violations"]
    errors,           \* audit: files reported "Error reading"
    report,           \* analyze: eslint_report.json (data), and whether the file is there
    violations,       \* analyze: violations
    vi,               \* analyze: position of the classification loop
    cross_module, same_module, other_to_module

vars == << prog, pc, tree, disk, idx, runs, updated, last, plans, findings, errors,
           report, violations, vi, cross_module, same_module, other_to_module >>

walkVars == << tree, disk, idx, updated, last, plans, findings, errors >>
reportVars == << report, violations, vi, cross_module, same_module, other_to_module >>

Init ==
    /\ prog \in { "refactor", "audit", "analyze" }
    /\ runs = 1
    /\ idx = 1
    /\ updated = { }
    /\ last = 0
    /\ plans = << >>
    /\ findings = << >>
    /\ errors = << >>
    /\ violations = << >>
    /\ vi = 1
    /\ cross_module = << >>
    /\ same_module = << >>
    /\ other_to_module = << >>
    /\ IF prog = "analyze"
       THEN /\ tree = << >>
            /\ report \in { [present |-> TRUE, data |-> r] : r \in Reports }
                            \cup { [present |-> FALSE, data |-> << >>] }
            /\ pc = "load"
       ELSE /\ tree \in IF prog = "refactor" THEN Trees ELSE WalkTrees
            /\ report = [present |-> FALSE, data |-> << >>]
            /\ pc = "walk"
    /\ disk = [i \in 1..Len(tree) |-> tree[i].content]

--------------------------------------------------------------------------------
(* refactor_imports.main *)

\* process_file on the next file of the walk
MainProcess ==
    /\ prog = "refactor" /\ pc = "walk" /\ idx <= Len(tree)
    /\ HasSourceExt(tree[idx].rel)
    /\ tree[idx].readable
    /\ plans' = SubAll(filepath_of(tree[idx].rel), disk[idx])
    /\ last' = idx
    /\ disk' = [disk EXCEPT ![idx] = [i \in 1..Len(plans') |-> plans'[i].out]]
    /\ updated' = IF disk'[idx] # disk[idx] THEN updated \cup { idx } ELSE updated
    /\ idx' = idx + 1
    /\ UNCHANGED << prog, pc, tree, runs, findings, errors, reportVars >>

\* a file without a source extension is passed over
MainSkip ==
    /\ prog = "refactor" /\ pc = "walk" /\ idx <= Len(tree)
    /\ ~HasSourceExt(tree[idx].rel)
    /\ idx' = idx + 1
    /\ UNCHANGED << prog, pc, tree, disk, runs, updated, last, plans, findings, errors, reportVars >>

\* open / read of process_file raises; nothing in process_file or main catches it
MainRaise ==
    /\ prog = "refactor" /\ pc = "walk" /\ idx <= Len(tree)
    /\ HasSourceExt(tree[idx].rel)
    /\ ~tree[idx].readable
    /\ pc' = "crashed"
    /\ UNCHANGED << prog, walkVars, runs, reportVars >>

MainEnd ==
    /\ prog = "refactor" /\ pc = "walk" /\ idx > Len(tree)
    /\ pc' = "done"
    /\ UNCHANGED << prog, walkVars, runs, reportVars >>

\* the script is run again on the tree it left
MainAgain ==
    /\ prog = "refactor" /\ pc \in { "done", "crashed" } /\ runs < MaxRuns
    /\ runs' = runs + 1
    /\ pc' = "walk"
    /\ idx' = 1
    /\ updated' = { }
    /\ last' = 0
    /\ plans' = << >>
    /\ UNCHANGED << prog, tree, disk, findings, errors, reportVars >>

--------------------------------------------------------------------------------
(* audit_script.audit_codebase *)

AuditPruned ==
    /\ prog = "audit" /\ pc = "walk" /\ idx <= Len(tree)
    /\ IsPrunedDir(dirname(tree[idx].rel))
    /\ idx' = idx + 1
    /\ UNCHANGED << prog, pc, tree, disk, runs, updated, last, plans, findings, errors, reportVars >>

AuditSkip ==
    /\ prog = "audit" /\ pc = "walk" /\ idx <= Len(tree)
    /\ ~IsPrunedDir(dirname(tree[idx].rel))
    /\ ~HasSourceExt(tree[idx].rel)
    /\ idx' = idx + 1
    /\ UNCHANGED << prog, pc, tree, disk, runs, updated, last, plans, findings, errors, reportVars >>

AuditScan ==
    /\ prog = "audit" /\ pc = "walk" /\ idx <= Len(tree)
    /\ ~IsPrunedDir(dirname(tree[idx].rel))
    /\ HasSourceExt(tree[idx].rel)
    /\ tree[idx].readable
    /\ findings' = findings \o AuditFile(tree[idx].rel, disk[idx])
    /\ idx' = idx + 1
    /\ UNCHANGED << prog, pc, tree, disk, runs, updated, last, plans, errors, reportVars >>

\* the except clause: the error is printed and the loop goes on
AuditUnreadable ==
    /\ prog = "audit" /\ pc = "walk" /\ idx <= Len(tree)
    /\ ~IsPrunedDir(dirname(tree[idx].rel))
    /\ HasSourceExt(tree[idx].rel)
    /\ ~tree[idx].readable
    /\ errors' = Append(errors, tree[idx].rel)
    /\ idx' = idx + 1
    /\ UNCHANGED << prog, pc, tree, disk, runs, updated, last, plans, findings, reportVars >>

AuditEnd ==
    /\ prog = "audit" /\ pc = "walk" /\ idx > Len(tree)
    /\ pc' = "done"
    /\ UNCHANGED << prog, walkVars, runs, reportVars >>

--------------------------------------------------------------------------------
(* analyze_report.py *)

AnalyzeLoad ==
    /\ prog = "analyze" /\ pc = "load" /\ report.present
    /\ violations' = Collect(report.data, 1)
    /\ pc' = "classify"
    /\ UNCHANGED << prog, walkVars, runs, report, vi, cross_module, same_module, other_to_module >>

\* FileNotFoundError: "eslint_report.json not found"
AnalyzeMissing ==
    /\ prog = "analyze" /\ pc = "load" /\ ~report.present
    /\ pc' = "done"
    /\ UNCHANGED << prog, walkVars, runs, reportVars >>

\* one iteration of the classification loop
ClassifyNext ==
    /\ prog = "analyze" /\ pc = "classify" /\ vi <= Len(violations)
    /\ Len(Split(violations[vi].message, << "'" >>)) >= 2
    /\ same_module' = AppendIf(same_module, "same", violations[vi])
    /\ cross_module' = AppendIf(cross_module, "cross", violations[vi])
    /\ other_to_module' = AppendIf(other_to_module, "other", violations[vi])
    /\ vi' = vi + 1
    /\ UNCHANGED << prog, pc, walkVars, runs, report, violations >>

\* v['message'].split("'")[1] raises IndexError, which the script does not catch
ClassifyRaise ==
    /\ prog = "analyze" /\ pc = "classify" /\ vi <= Len(violations)
    /\ Len(Split(violations[vi].message, << "'" >>)) < 2
    /\ pc' = "crashed"
    /\ UNCHANGED << prog, walkVars, runs, reportVars >>

\* the three listings are printed
AnalyzePrint ==
    /\ prog = "analyze" /\ pc = "classify" /\ vi > Len(violations)
    /\ pc' = "done"
    /\ UNCHANGED << prog, walkVars, runs, reportVars >>

--------------------------------------------------------------------------------

Next ==
    \/ MainProcess
    \/ MainSkip
    \/ MainRaise
    \/ MainEnd
    \/ MainAgain
    \/ AuditPruned
    \/ AuditSkip
    \/ AuditScan
    \/ AuditUnreadable
    \/ AuditEnd
    \/ AnalyzeLoad
    \/ AnalyzeMissing
    \/ ClassifyNext
    \/ ClassifyRaise
    \/ AnalyzePrint

Spec == Init /\ [][Next]_vars


--------------------------------------------------------------------------------
(* Reference definitions for the properties: paths as lists of segments *)

Segs(p) == Split(p, SLASH)

RootSegs == << << "home" >>, << "repo" >> >>

IsSegPrefix(a, b) == Len(a) <= Len(b) /\ SubSeq(b, 1, Len(a)) = a

\* lexical normalisation of an absolute path given as segments
RECURSIVE RefNorm(_, _)
RefNorm(segs, stack) ==
    IF Len(segs) = 0 THEN stack
    ELSE IF Head(segs) = << >> \/ Head(segs) = DOT THEN RefNorm(Tail(segs), stack)
    ELSE IF Head(segs) = DOTDOT
    THEN RefNorm(Tail(segs), IF Len(stack) > 0 THEN SubSeq(stack, 1, Len(stack) - 1) ELSE stack)
    ELSE RefNorm(Tail(segs), Append(stack, Head(segs)))

\* the directory of the file at rel (below the root) joined with spec, normalised
RefTarget(rel, spec) ==
    RefNorm(RootSegs \o SubSeq(Segs(rel), 1, Len(Segs(rel)) - 1) \o Segs(spec), << >>)

RefInside(rel, spec) == IsSegPrefix(RootSegs, RefTarget(rel, spec))

\* the target below the root, as a path
RefCanonical(rel, spec) ==
    LET t == RefTarget(rel, spec)
    IN  OrDot(JoinWith(SubSeq(t, Len(RootSegs) + 1, Len(t)), SLASH))

\* the alias by the first rule, in table order, whose prefix is a leading run of
\* whole segments of path
ExpectedAlias(table, path) ==
    LET segs == Segs(path)
        matching == { i \in 1..Len(table) : IsSegPrefix(Segs(table[i][1]), segs) }
    IN  IF matching = { } THEN None
        ELSE LET i == CHOOSE k \in matching : \A j \in matching : k <= j
             IN  table[i][2] \o SubSeq(path, Len(table[i][1]) + 1, Len(path))

\* the segment after root, when path lies below root and that segment is not empty
ModuleOf(root, path) ==
    LET segs == Segs(path)
    IN  IF /\ Len(segs) > Len(root)
           /\ SubSeq(segs, 1, Len(root)) = root
           /\ segs[Len(root) + 1] # << >>
        THEN segs[Len(root) + 1]
        ELSE None

SrcModules == << << "src" >>, << "modules" >> >>
AliasModules == << << "@" >>, << "modules" >> >>

\* the list a processed violation was appended to, found by its line
BucketOfLine(l) ==
    IF \E i \in 1..Len(same_module) : same_module[i].line = l THEN "same"
    ELSE IF \E i \in 1..Len(cross_module) : cross_module[i].line = l THEN "cross"
    ELSE IF \E i \in 1..Len(other_to_module) : other_to_module[i].line = l THEN "other"
    ELSE "none"

AllInfos == same_module \o cross_module \o other_to_module

InfoOfLine(l) == CHOOSE e \in { AllInfos[i] : i \in 1..Len(AllInfos) } : e.line = l

\* the violations the classification loop has been through
Classified == 1..(vi - 1)

TwoUp == << ".", ".", "/", ".", ".", "/" >>
S_Sibling == << ".", "/", "sibling" >>
S_DeepFriend == Up(4) \o << "src", "/", "db", "/", "models", "/", "Friend" >>
A_Friend == << "@", "/", "db", "/", "models", "/", "Friend" >>
P_Friend == << "src", "/", "db", "/", "models", "/", "Friend" >>
S_Foo == << "@", "/", "modules", "/", "interactions", "/", "services", "/", "foo" >>

\* the plans held are those of the file at tree[last]
HasPlans == prog = "refactor" /\ last > 0

--------------------------------------------------------------------------------
(* Properties *)

\* C1: the rewrite pass is idempotent.  In a second (or later) invocation on the
\* tree the first one left, no occurrence is rewritten and no file is written;
\* every specifier a pass rewrites begins with the alias sigil "@", not ".".
C1_Idempotent ==
    prog = "refactor" =>
        /\ \A i \in 1..Len(plans) : plans[i].out # plans[i].path => plans[i].out[1] = "@"
        /\ runs >= 2 =>
            /\ updated = { }
            /\ \A i \in 1..Len(plans) : plans[i].out = plans[i].path

C1_Witness ==
    /\ HasPlans /\ runs = 2 /\ pc = "done"
    /\ disk[last] # tree[last].content
    /\ \E i \in 1..Len(plans) : plans[i].path[1] = "@" /\ tree[last].content[i][1] = "."

\* C2: a violation whose file lies under src/modules/<M>/ and whose specifier is
\* @/modules/<N>/... goes to same_module when M = N and to cross_module when
\* M # N; when either module is undefined it goes to other_to_module.  The
\* specifier '@/modules/interactions/services/foo' is CrossModule on
\* src/modules/billing/Bar.ts and SameModule on
\* src/modules/interactions/internal/Bar.ts.
C2_Classification ==
    prog = "analyze" =>
        \A k \in Classified :
            LET v == violations[k]
                e == InfoOfLine(v.line)
                M == ModuleOf(SrcModules, v.file)
                N == ModuleOf(AliasModules, e.import)
            IN  /\ BucketOfLine(v.line) =
                       IF M # None /\ N # None
                       THEN IF M = N THEN "same" ELSE "cross"
                       ELSE "other"
                /\ v.message = MsgOf(S_Foo) =>
                    /\ e.import = S_Foo
                    /\ v.file = << "src", "/", "modules", "/", "billing", "/", "Bar", ".", "ts" >>
                          => BucketOfLine(v.line) = "cross"
                    /\ v.file = << "src", "/", "modules", "/", "interactions", "/", "internal",
                                   "/", "Bar", ".", "ts" >>
                          => BucketOfLine(v.line) = "same"

C2_Witness ==
    /\ prog = "analyze" /\ pc = "done"
    /\ \E i \in 1..Len(cross_module) :
          /\ cross_module[i].import = S_Foo
          /\ cross_module[i].file = << "src", "/", "modules", "/", "billing", "/", "Bar", ".", "ts" >>
    /\ \E i \in 1..Len(same_module) :
          /\ same_module[i].import = S_Foo
          /\ same_module[i].file = << "src", "/", "modules", "/", "interactions", "/", "internal",
                                      "/", "Bar", ".", "ts" >>

\* C3: classification is total.  Every violation that carries a specifier is
\* appended to exactly one of the three lists, so their lengths sum to the number
\* of violations gone through (all of them once the listings are printed); a bare
\* package name goes to other_to_module; the loop stops with an error only at a
\* message that holds no quote, hence no specifier.
C3_Total ==
    prog = "analyze" =>
        /\ Len(same_module) + Len(cross_module) + Len(other_to_module) = vi - 1
        /\ \A k \in Classified :
              /\ Cardinality({ i \in 1..Len(AllInfos) : AllInfos[i].line = violations[k].line }) = 1
              /\ BucketOfLine(violations[k].line) \in { "same", "cross", "other" }
              /\ violations[k].message = MsgOf(<< "react" >>)
                    => BucketOfLine(violations[k].line) = "other"
        /\ (pc = "done" /\ report.present) => vi - 1 = Len(violations)
        /\ pc = "crashed" => ~Contains(violations[vi].message, << "'" >>)

C3_Witness ==
    /\ prog = "analyze" /\ pc = "done" /\ Len(violations) = 2
    /\ Len(other_to_module) = 1 /\ other_to_module[1].import = << "react" >>
    /\ other_to_module[1].file = << "src", "/", "modules", "/", "billing", "/", "Bar", ".", "ts" >>
    /\ Len(cross_module) = 1

\* C4 as claimed: a relative specifier is resolved against the source file's
\* directory first, and the violation is SameModule or CrossModule by the module
\* of the resolved path.
C4_RelativeResolved ==
    prog = "analyze" =>
        \A k \in Classified :
            LET v == violations[k]
                e == InfoOfLine(v.line)
                M == ModuleOf(SrcModules, v.file)
                N == ModuleOf(SrcModules, RefCanonical(v.file, e.import))
            IN  (StartsWith(e.import, DOT) /\ RefInside(v.file, e.import) /\ M # None /\ N # None)
                    => BucketOfLine(v.line) = IF M = N THEN "same" ELSE "cross"

\* C4 amended: a relative specifier is never resolved; its target module is
\* undefined and the violation goes to other_to_module, whatever it resolves to.
C4_RelativeIsOther ==
    prog = "analyze" =>
        \A k \in Classified :
            StartsWith(InfoOfLine(violations[k].line).import, DOT)
                => BucketOfLine(violations[k].line) = "other"

C4_Witness ==
    /\ prog = "analyze" /\ pc = "done"
    /\ \E i \in 1..Len(other_to_module) :
          LET e == other_to_module[i]
          IN  /\ StartsWith(e.import, DOT)
              /\ RefInside(e.file, e.import)
              /\ ModuleOf(SrcModules, e.file) = << "billing" >>
              /\ ModuleOf(SrcModules, RefCanonical(e.file, e.import)) = << "interactions" >>

\* the law of C5: the resolved path is the lexical join of the file's directory
\* with the specifier, normalised, relative to the root; a target outside the
\* root comes back as a path that begins with ".."
ResolutionLaw ==
    HasPlans =>
        \A i \in 1..Len(plans) :
            StartsWith(plans[i].path, DOT) =>
                IF RefInside(tree[last].rel, plans[i].path)
                THEN plans[i].resolved = RefCanonical(tree[last].rel, plans[i].path)
                ELSE StartsWith(plans[i].resolved, DOTDOT)

\* C5 as claimed: the law, and for a file a/b/c.ts the specifier '../../d/e'
\* resolves to a/d/e (here a = app).
C5_ResolveAsClaimed ==
    /\ ResolutionLaw
    /\ (HasPlans /\ tree[last].rel = F_C) =>
          \A i \in 1..Len(plans) :
              plans[i].path = TwoUp \o << "d", "/", "e" >>
                  => plans[i].resolved = << "app", "/", "d", "/", "e" >>

\* C5 amended: the law, and for a file a/b/c.ts the specifier '../../d/e'
\* resolves to d/e: the two parent steps leave the directory a/b for the root.
C5_Resolve ==
    /\ ResolutionLaw
    /\ (HasPlans /\ tree[last].rel = F_C) =>
          \A i \in 1..Len(plans) :
              plans[i].path = TwoUp \o << "d", "/", "e" >>
                  => plans[i].resolved = << "d", "/", "e" >>

C5_Witness ==
    /\ HasPlans /\ tree[last].rel = F_C
    /\ \E i \in 1..Len(plans) :
          /\ plans[i].path = TwoUp \o << "d", "/", "e" >>
          /\ plans[i].resolved = << "d", "/", "e" >>

\* two rules with overlapping prefixes, in both orders
OverlapShortFirst == <<
    << << "src", "/", "db" >>, << "@", "/", "db" >> >>,
    << << "src", "/", "db", "/", "models" >>, << "@", "/", "models" >> >> >>

OverlapLongFirst == << OverlapShortFirst[2], OverlapShortFirst[1] >>

\* C6: get_alias_for_path replaces the prefix of the first rule, in table order,
\* that equals the path or is followed in it by "/", and keeps the rest; it
\* returns None when no rule matches.  src/db/models/Friend maps to
\* @/db/models/Friend and src/dbx/y to nothing; of two overlapping rules the one
\* declared first is applied.
C6_FirstMatch ==
    HasPlans =>
        \A i \in 1..Len(plans) :
            plans[i].mapped =>
                /\ plans[i].aliased = ExpectedAlias(ALIASES, plans[i].resolved)
                /\ plans[i].resolved = P_Friend =>
                      /\ plans[i].aliased = A_Friend
                      /\ AliasLoop(OverlapShortFirst, plans[i].resolved) = A_Friend
                      /\ AliasLoop(OverlapLongFirst, plans[i].resolved)
                            = << "@", "/", "models", "/", "Friend" >>
                /\ plans[i].resolved = << "src", "/", "db", "x", "/", "y" >>
                      => plans[i].aliased = None
                /\ plans[i].resolved = << "src", "/", "db" >> => plans[i].aliased = << "@", "/", "db" >>

C6_Witness ==
    /\ HasPlans
    /\ \E i \in 1..Len(plans) :
          /\ plans[i].mapped
          /\ plans[i].resolved = << "src", "/", "db", "x", "/", "y" >>
          /\ plans[i].aliased = None

\* whether the occurrence was rewritten
Rewritten(pl) == pl.out # pl.path

\* C7 as claimed: a relative specifier is replaced by its alias exactly when the
\* alias exists, differs from the specifier, and the specifier contains "../../"
\* or the canonical path of the target contains the segment "src".
C7_DecisionAsClaimed ==
    HasPlans =>
        \A i \in 1..Len(plans) :
            StartsWith(plans[i].path, DOT) =>
                LET inside == RefInside(tree[last].rel, plans[i].path)
                    canon == RefCanonical(tree[last].rel, plans[i].path)
                    alias == IF inside THEN ExpectedAlias(ALIASES, canon) ELSE None
                IN  /\ Rewritten(plans[i]) <=>
                          /\ alias # None
                          /\ alias # plans[i].path
                          /\ \/ Contains(plans[i].path, TwoUp)
                             \/ inside /\ \E k \in 1..Len(Segs(canon)) : Segs(canon)[k] = << "src" >>
                    /\ Rewritten(plans[i]) => plans[i].out = alias

\* C7 amended: a relative specifier is replaced by its alias exactly when the
\* alias exists, differs from the specifier, and the specifier itself contains
\* "../../" or "/src/".
C7_Decision ==
    HasPlans =>
        \A i \in 1..Len(plans) :
            StartsWith(plans[i].path, DOT) =>
                LET alias == IF RefInside(tree[last].rel, plans[i].path)
                             THEN ExpectedAlias(ALIASES, RefCanonical(tree[last].rel, plans[i].path))
                             ELSE None
                IN  /\ Rewritten(plans[i]) <=>
                          /\ alias # None
                          /\ alias # plans[i].path
                          /\ \/ Contains(plans[i].path, TwoUp)
                             \/ Contains(plans[i].path, << "/", "src", "/" >>)
                    /\ Rewritten(plans[i]) => plans[i].out = alias

\* a specifier with one parent step is rewritten because it names /src/
C7_Witness ==
    /\ HasPlans
    /\ \E i \in 1..Len(plans) :
          /\ plans[i].path = << ".", ".", "/", "src", "/", "db", "/", "models", "/", "Friend" >>
          /\ tree[last].rel = F_C
          /\ plans[i].out = << "@", "/", "app", "/", "src", "/", "db", "/", "models", "/", "Friend" >>

\* C8 as claimed: './sibling' is never rewritten, and
\* '../../../../src/db/models/Friend' is always rewritten to its alias form.
C8_ConservatismAsClaimed ==
    HasPlans =>
        \A i \in 1..Len(plans) :
            /\ plans[i].path = S_Sibling => ~Rewritten(plans[i])
            /\ plans[i].path = S_DeepFriend =>
                  /\ Rewritten(plans[i])
                  /\ plans[i].out[1] = "@"

\* C8 amended: './sibling' is never rewritten; '../../../../src/db/models/Friend'
\* is rewritten to the alias of its target exactly when the target lies inside
\* the root and a rule matches it (to @/db/models/Friend from a file four
\* directories deep), and is kept otherwise (from a file directly under src/).
C8_Conservatism ==
    HasPlans =>
        \A i \in 1..Len(plans) :
            /\ plans[i].path = S_Sibling => ~Rewritten(plans[i])
            /\ plans[i].path = S_DeepFriend =>
                  /\ Rewritten(plans[i]) <=>
                        /\ RefInside(tree[last].rel, S_DeepFriend)
                        /\ ExpectedAlias(ALIASES, RefCanonical(tree[last].rel, S_DeepFriend)) # None
                  /\ tree[last].rel = F_Invoice => plans[i].out = A_Friend
                  /\ tree[last].rel = F_A => ~Rewritten(plans[i])

C8_Witness ==
    /\ HasPlans /\ tree[last].rel = F_Invoice
    /\ \E i \in 1..Len(plans) : plans[i].path = S_DeepFriend /\ plans[i].out = A_Friend

\* C9: a relative specifier whose target lies above the root is left as it was,
\* and its path is never handed to get_alias_for_path; the occurrences after it
\* are still handled (every occurrence of the file has its plan).
C9_OutOfBounds ==
    HasPlans =>
        /\ Len(plans) = Len(tree[last].content)
        /\ \A i \in 1..Len(plans) :
              /\ (StartsWith(plans[i].path, DOT) /\ ~RefInside(tree[last].rel, plans[i].path))
                    => (~Rewritten(plans[i]) /\ ~plans[i].mapped)
              /\ plans[i].mapped => RefInside(tree[last].rel, plans[i].path)
        /\ (runs = 1 /\ tree[last].rel = F_C
                /\ tree[last].content = << Up(3) \o << "d", "/", "e" >>, TwoUp \o P_Friend >>) =>
              /\ ~Rewritten(plans[1])
              /\ plans[2].out = A_Friend

C9_Witness ==
    /\ HasPlans /\ runs = 1 /\ tree[last].rel = F_C
    /\ tree[last].content = << Up(3) \o << "d", "/", "e" >>, TwoUp \o P_Friend >>
    /\ ~RefInside(F_C, plans[1].path)
    /\ plans[1].out = plans[1].path
    /\ plans[2].out = A_Friend

\* C10: an unreadable file never aborts a walk: neither script stops with an
\* error, and a walk that is over has been through every file of the tree.
C10_UnreadableNeverAborts ==
    prog \in { "refactor", "audit" } =>
        /\ pc # "crashed"
        /\ pc = "done" => idx = Len(tree) + 1

================================================================================
